---- MODULE Spec2Model ----
(***************************************************************************)
(* Model of the global shortcut registry, src/utils/shortcutManager.js:    *)
(* the ShortcutManager singleton (shortcuts map, registeredAccelerators    *)
(* set, stats) and the Electron globalShortcut service it drives.          *)
(*                                                                         *)
(* The registry's operations are synchronous JavaScript methods, so each   *)
(* is one atomic action.  The answer of the OS to each individual claim    *)
(* (accept, reject, throw) is the environment's choice, drawn with \E.     *)
(***************************************************************************)
EXTENDS Integers, Sequences, FiniteSets, TLC

VARIABLES
  shortcuts,               \* this.shortcuts: Map id => config, in insertion order
  registeredAccelerators,  \* this.registeredAccelerators: Set of accelerators
  stats,                   \* this.stats; lastTriggered is <<>> for null, else <<record>>
  globalShortcut,          \* Electron's table for this process: the callbacks it holds
  listeners                \* the EventEmitter's listeners of 'shortcut-triggered', in order

vars == <<shortcuts, registeredAccelerators, stats, globalShortcut, listeners>>

----------------------------------------------------------------------------
(* Bounds of the model *)

\* operations that count a claim in stats.totalRegistered run while it is below this
MaxRegistered == 2

\* trigger callbacks run while stats.totalTriggered is below this
MaxTriggered == 2

\* listeners are subscribed while there are fewer than this
MaxListeners == 2

----------------------------------------------------------------------------
(* Data *)

\* this.defaults, in the order of the object literal
defaults ==
  << [id |-> "show-hide-window",
      config |-> [accelerator |-> "CommandOrControl+Alt+E", action |-> "show-hide-window",
                  description |-> "Show/Hide main window", enabled |-> TRUE]],
     [id |-> "create-note",
      config |-> [accelerator |-> "CommandOrControl+Alt+N", action |-> "create-note",
                  description |-> "Create new note", enabled |-> TRUE]],
     [id |-> "capture-clipboard",
      config |-> [accelerator |-> "CommandOrControl+Alt+C", action |-> "capture-clipboard",
                  description |-> "Capture clipboard content", enabled |-> TRUE]],
     [id |-> "take-screenshot",
      config |-> [accelerator |-> "CommandOrControl+Alt+S", action |-> "take-screenshot",
                  description |-> "Take screenshot", enabled |-> TRUE]],
     [id |-> "quick-search",
      config |-> [accelerator |-> "CommandOrControl+Alt+Q", action |-> "quick-search",
                  description |-> "Quick search", enabled |-> TRUE]] >>

\* the ids callers pass to the single-binding operations
InputIds == {"show-hide-window", "custom"}

\* the well-formed accelerators callers pass
InputAccelerators == {"CommandOrControl+Alt+E", "CommandOrControl+Alt+N"}

\* an accelerator without a modifier, passed to register and checkAvailability
MalformedAccelerators == {"k"}

AnyAccelerators == InputAccelerators \cup MalformedAccelerators

\* the (action, description) pairs callers pass to register
InputActions ==
  { [action |-> "custom-action", description |-> "Custom"] }

\* what the OS may answer to one globalShortcut.register call
Outcomes == {"accept", "reject", "throw"}

\* the answers to the n claims of one initialize: the OS accepts them all, or
\* refuses exactly one of them (register catches a throw and leaves the state a
\* refusal leaves)
InitializeOutcomes(n) ==
  {[i \in 1..n |-> "accept"]}
    \cup {[i \in 1..n |-> IF i = k THEN "reject" ELSE "accept"] : k \in 1..n}

\* the answers to the two claims update can make: the second, the attempt to
\* restore the old accelerator, is made only when the first is refused
UpdateOutcomes ==
  {<<"accept", "accept">>, <<"throw", "accept">>} \cup {<<"reject", o>> : o \in Outcomes}

\* what new Date().toISOString() may return during a trigger callback
Timestamps == {"T1", "T2"}

\* the listeners callers subscribe: one that returns and one that throws
ListenerKinds == {"returns", "throws"}

\* every course of n claims
AllOutcomes(n) == [1..n -> Outcomes]

\* the configurations callers pass to import: the empty object, and a disabled and
\* an enabled entry with one accelerator
ImportConfigs ==
  { <<>>,
    << [id |-> "custom",
        config |-> [accelerator |-> "CommandOrControl+Alt+E", action |-> "custom-action",
                    description |-> "Custom", enabled |-> FALSE]],
       [id |-> "show-hide-window",
        config |-> [accelerator |-> "CommandOrControl+Alt+E", action |-> "show-hide-window",
                    description |-> "Show/Hide main window", enabled |-> TRUE]] >> }

\* the '+'-separated tokens of the accelerator strings of the model
Tokens(accelerator) ==
  CASE accelerator = "CommandOrControl+Alt+E" -> <<"CommandOrControl", "Alt", "E">>
    [] accelerator = "CommandOrControl+Alt+N" -> <<"CommandOrControl", "Alt", "N">>
    [] accelerator = "CommandOrControl+Alt+C" -> <<"CommandOrControl", "Alt", "C">>
    [] accelerator = "CommandOrControl+Alt+S" -> <<"CommandOrControl", "Alt", "S">>
    [] accelerator = "CommandOrControl+Alt+Q" -> <<"CommandOrControl", "Alt", "Q">>
    [] accelerator = "k" -> <<"k">>
    [] OTHER -> <<>>

\* tokens in which /Command|Ctrl|Control|Alt|Option|Shift|Super|Meta/ finds a match
ModifierTokens == {"CommandOrControl", "Command", "Ctrl", "Control", "Alt", "Option",
                   "Shift", "Super", "Meta"}

\* tokens in which the key pattern /[A-Z0-9]|F[1-9]|.../ finds a match: any token
\* with an upper-case letter or a digit in it
KeyTokens == {"CommandOrControl", "Command", "Ctrl", "Control", "Alt", "Option",
              "Shift", "Super", "Meta", "E", "N", "C", "S", "Q"}

isAcceleratorValid(accelerator) ==
  LET toks == Tokens(accelerator)
      hasModifier == \E i \in DOMAIN toks : toks[i] \in ModifierTokens
      hasKey == \E i \in DOMAIN toks : toks[i] \in KeyTokens
  IN  accelerator # "" /\ hasModifier /\ hasKey

----------------------------------------------------------------------------
(* The Map this.shortcuts: a sequence of [id, config] entries in insertion order *)

MapHas(map, id) == \E i \in DOMAIN map : map[i].id = id

MapIndex(map, id) == CHOOSE i \in DOMAIN map : map[i].id = id

\* Map.prototype.get; only used where MapHas holds
MapGet(map, id) == map[MapIndex(map, id)].config

\* Map.prototype.set: an existing key keeps its position, a new key is appended
MapSet(map, id, config) ==
  IF MapHas(map, id)
  THEN [map EXCEPT ![MapIndex(map, id)] = [id |-> id, config |-> config]]
  ELSE Append(map, [id |-> id, config |-> config])

\* the registry's memory and the backend, threaded through one operation;
\* calls is the log of the backend calls the operation has made
Machine(s, r, st, g) ==
  [shortcuts |-> s, registeredAccelerators |-> r, stats |-> st, globalShortcut |-> g,
   calls |-> <<>>]

----------------------------------------------------------------------------
(* Electron's globalShortcut, as the registry uses it *)

Held(g) == {c.accelerator : c \in g}

\* globalShortcut.register(accelerator, callback): false when this process already
\* holds the accelerator, else what the OS answers; a throw leaves nothing registered
gsRegister(m, accelerator, callback, outcome) ==
  LET ret == IF accelerator \in Held(m.globalShortcut) THEN "reject" ELSE outcome
  IN  [m |-> [m EXCEPT
                !.globalShortcut = IF ret = "accept" THEN @ \cup {callback} ELSE @,
                !.calls = Append(@, [fn |-> "register", accelerator |-> accelerator,
                                     ret |-> ret])],
       ret |-> ret]

\* globalShortcut.unregister(accelerator): releasing what is not held is a no-op
gsUnregister(m, accelerator) ==
  [m EXCEPT
     !.globalShortcut = {c \in @ : c.accelerator # accelerator},
     !.calls = Append(@, [fn |-> "unregister", accelerator |-> accelerator, ret |-> "void"])]

\* globalShortcut.unregisterAll()
gsUnregisterAll(m) ==
  [m EXCEPT
     !.globalShortcut = {},
     !.calls = Append(@, [fn |-> "unregisterAll", accelerator |-> "", ret |-> "void"])]

\* the closure () => this.handleShortcutTriggered(id, action, accelerator)
Callback(id, action, accelerator) ==
  [id |-> id, action |-> action, accelerator |-> accelerator]

----------------------------------------------------------------------------
(* ShortcutManager methods: each maps a machine to [m: machine after, result] *)

\* lines 149-159: store the shortcut info, index the accelerator, count the claim
storeShortcut_forgetsStats(m, id, accelerator, action, description) ==
  [m EXCEPT
     !.shortcuts = MapSet(@, id,
        [accelerator |-> accelerator, action |-> action, description |-> description,
         enabled |-> TRUE, registered |-> TRUE]),
     !.registeredAccelerators = @ \cup {accelerator}]

storeShortcut(m, id, accelerator, action, description) ==
  [m EXCEPT
     !.shortcuts = MapSet(@, id,
        [accelerator |-> accelerator, action |-> action, description |-> description,
         enabled |-> TRUE, registered |-> TRUE]),
     !.registeredAccelerators = @ \cup {accelerator},
     !.stats.totalRegistered = @ + 1]

\* a registerClaim that stores the shortcut before it asks Electron
registerClaim_storesFirst(m, id, accelerator, action, description, outcome) ==
  LET m1 == storeShortcut(m, id, accelerator, action, description)
      c == gsRegister(m1, accelerator, Callback(id, action, accelerator), outcome)
  IN  IF c.ret = "throw"
      THEN [m |-> c.m,
            result |-> [success |-> FALSE, error |-> "error.message", conflict |-> FALSE]]
      ELSE IF c.ret = "reject"
      THEN [m |-> c.m,
            result |-> [success |-> FALSE,
                        error |-> "Failed to register shortcut (may be in use by system)",
                        conflict |-> TRUE]]
      ELSE [m |-> c.m,
            result |-> [success |-> TRUE, id |-> id, accelerator |-> accelerator,
                        action |-> action]]

\* lines 136-168 (and the catch of 169-176): try to register with Electron, then store
registerClaim(m, id, accelerator, action, description, outcome) ==
  LET c == gsRegister(m, accelerator, Callback(id, action, accelerator), outcome)
  IN  IF c.ret = "throw"
      THEN [m |-> c.m,
            result |-> [success |-> FALSE, error |-> "error.message", conflict |-> FALSE]]
      ELSE IF c.ret = "reject"
      THEN [m |-> c.m,
            result |-> [success |-> FALSE,
                        error |-> "Failed to register shortcut (may be in use by system)",
                        conflict |-> TRUE]]
      ELSE [m |-> storeShortcut(c.m, id, accelerator, action, description),
            result |-> [success |-> TRUE, id |-> id, accelerator |-> accelerator,
                        action |-> action]]

\* an in-use check that scans the claimed bindings instead of the index
acceleratorInUse_scansBindings(m, accelerator) ==
  \E i \in DOMAIN m.shortcuts :
    /\ m.shortcuts[i].config.accelerator = accelerator
    /\ m.shortcuts[i].config.registered

\* this.registeredAccelerators.has(accelerator)
acceleratorInUse(m, accelerator) == accelerator \in m.registeredAccelerators

register(m, id, accelerator, action, description, outcome) ==
  IF acceleratorInUse(m, accelerator)
  THEN [m |-> m,
        result |-> [success |-> FALSE, error |-> "Shortcut already registered",
                    conflict |-> TRUE]]
  ELSE IF ~isAcceleratorValid(accelerator)
  THEN [m |-> m,
        result |-> [success |-> FALSE, error |-> "Invalid accelerator format",
                    conflict |-> FALSE]]
  ELSE registerClaim(m, id, accelerator, action, description, outcome)

\* an unregister that clears registered and leaves enabled as it was
unregister_keepsEnabled(m, id) ==
  IF ~MapHas(m.shortcuts, id)
  THEN [m |-> m, result |-> [success |-> FALSE, error |-> "Shortcut not found"]]
  ELSE LET shortcut == MapGet(m.shortcuts, id)
           m1 == IF shortcut.registered
                 THEN [gsUnregister(m, shortcut.accelerator) EXCEPT
                         !.registeredAccelerators = @ \ {shortcut.accelerator}]
                 ELSE m
       IN  [m |-> [m1 EXCEPT
                     !.shortcuts = MapSet(@, id, [shortcut EXCEPT !.registered = FALSE])],
            result |-> [success |-> TRUE, id |-> id]]

\* an unregister that deletes the binding from the map
unregister_deletes(m, id) ==
  IF ~MapHas(m.shortcuts, id)
  THEN [m |-> m, result |-> [success |-> FALSE, error |-> "Shortcut not found"]]
  ELSE LET shortcut == MapGet(m.shortcuts, id)
           m1 == IF shortcut.registered
                 THEN [gsUnregister(m, shortcut.accelerator) EXCEPT
                         !.registeredAccelerators = @ \ {shortcut.accelerator}]
                 ELSE m
       IN  [m |-> [m1 EXCEPT
                     !.shortcuts = SelectSeq(@, LAMBDA e : e.id # id)],
            result |-> [success |-> TRUE, id |-> id]]

unregister(m, id) ==
  IF ~MapHas(m.shortcuts, id)
  THEN [m |-> m, result |-> [success |-> FALSE, error |-> "Shortcut not found"]]
  ELSE LET shortcut == MapGet(m.shortcuts, id)
           m1 == IF shortcut.registered
                 THEN [gsUnregister(m, shortcut.accelerator) EXCEPT
                         !.registeredAccelerators = @ \ {shortcut.accelerator}]
                 ELSE m
       IN  [m |-> [m1 EXCEPT
                     !.shortcuts = MapSet(@, id,
                        [shortcut EXCEPT !.enabled = FALSE, !.registered = FALSE])],
            result |-> [success |-> TRUE, id |-> id]]

\* returns the first id, in insertion order, whose accelerator is the given one
findShortcutByAccelerator(m, accelerator) ==
  IF \E i \in DOMAIN m.shortcuts : m.shortcuts[i].config.accelerator = accelerator
  THEN LET first == CHOOSE i \in DOMAIN m.shortcuts :
                      /\ m.shortcuts[i].config.accelerator = accelerator
                      /\ \A j \in 1..(i - 1) : m.shortcuts[j].config.accelerator # accelerator
       IN  m.shortcuts[first].id
  ELSE "null"

unregisterAll(m) ==
  LET m1 == [gsUnregisterAll(m) EXCEPT !.registeredAccelerators = {}]
  IN  [m |-> [m1 EXCEPT
                !.shortcuts = [i \in DOMAIN @ |->
                                 [@[i] EXCEPT !.config.registered = FALSE]]],
       result |-> [success |-> TRUE]]

\* an updateClaim that claims the new accelerator before it releases the old one
updateClaim_claimsFirst(m, id, newAccelerator, o1, o2) ==
  LET shortcut == MapGet(m.shortcuts, id)
      c == gsRegister(m, newAccelerator,
                      Callback(id, shortcut.action, newAccelerator), o1)
      released == IF shortcut.registered
                  THEN [gsUnregister(c.m, shortcut.accelerator) EXCEPT
                          !.registeredAccelerators = @ \ {shortcut.accelerator}]
                  ELSE c.m
  IN  IF c.ret = "throw"
      THEN [m |-> c.m, result |-> [success |-> FALSE, error |-> "error.message"]]
      ELSE IF c.ret = "reject"
      THEN [m |-> c.m,
            result |-> [success |-> FALSE,
                        error |-> "Failed to register new shortcut (system conflict)",
                        conflict |-> TRUE]]
      ELSE [m |-> [released EXCEPT
                     !.shortcuts = MapSet(@, id,
                        [shortcut EXCEPT !.accelerator = newAccelerator,
                                         !.registered = TRUE]),
                     !.registeredAccelerators = @ \cup {newAccelerator}],
            result |-> [success |-> TRUE, id |-> id,
                        oldAccelerator |-> shortcut.accelerator,
                        newAccelerator |-> newAccelerator]]

\* lines 277-317 (and the catch of 318-323): release the old accelerator, claim the
\* new one, restore the old one when that is refused; o1 answers the claim of
\* newAccelerator, o2 the attempt to restore
updateClaim(m, id, newAccelerator, o1, o2) ==
  LET shortcut == MapGet(m.shortcuts, id)
      m1 == IF shortcut.registered
            THEN [gsUnregister(m, shortcut.accelerator) EXCEPT
                    !.registeredAccelerators = @ \ {shortcut.accelerator}]
            ELSE m
      c == gsRegister(m1, newAccelerator,
                      Callback(id, shortcut.action, newAccelerator), o1)
  IN  IF c.ret = "throw"
      THEN [m |-> c.m, result |-> [success |-> FALSE, error |-> "error.message"]]
      ELSE IF c.ret = "reject"
      THEN LET c2 == gsRegister(c.m, shortcut.accelerator,
                         Callback(id, shortcut.action, shortcut.accelerator), o2)
           IN  IF c2.ret = "throw"
               THEN [m |-> c2.m,
                     result |-> [success |-> FALSE, error |-> "error.message"]]
               ELSE [m |-> c2.m,
                     result |-> [success |-> FALSE,
                        error |-> "Failed to register new shortcut (system conflict)",
                        conflict |-> TRUE]]
      ELSE [m |-> [c.m EXCEPT
                     !.shortcuts = MapSet(@, id,
                        [shortcut EXCEPT !.accelerator = newAccelerator,
                                         !.registered = TRUE]),
                     !.registeredAccelerators = @ \cup {newAccelerator}],
            result |-> [success |-> TRUE, id |-> id,
                        oldAccelerator |-> shortcut.accelerator,
                        newAccelerator |-> newAccelerator]]

\* an update that releases the old accelerator before it looks for a conflict
update_releasesFirst(m, id, newAccelerator, o1, o2) ==
  IF ~MapHas(m.shortcuts, id)
  THEN [m |-> m, result |-> [success |-> FALSE, error |-> "Shortcut not found"]]
  ELSE LET shortcut == MapGet(m.shortcuts, id)
           m1 == IF shortcut.registered
                 THEN [gsUnregister(m, shortcut.accelerator) EXCEPT
                         !.registeredAccelerators = @ \ {shortcut.accelerator}]
                 ELSE m
       IN  IF newAccelerator \in m1.registeredAccelerators
           THEN [m |-> m1,
                 result |-> [success |-> FALSE, error |-> "Accelerator already in use",
                             conflict |-> TRUE,
                             conflictWith |-> findShortcutByAccelerator(m1, newAccelerator)]]
           ELSE updateClaim(m1, id, newAccelerator, o1, o2)

update(m, id, newAccelerator, o1, o2) ==
  IF ~MapHas(m.shortcuts, id)
  THEN [m |-> m, result |-> [success |-> FALSE, error |-> "Shortcut not found"]]
  ELSE IF newAccelerator \in m.registeredAccelerators
  THEN [m |-> m,
        result |-> [success |-> FALSE, error |-> "Accelerator already in use",
                    conflict |-> TRUE,
                    conflictWith |-> findShortcutByAccelerator(m, newAccelerator)]]
  ELSE updateClaim(m, id, newAccelerator, o1, o2)

\* an enable without the early return for a binding that is already Active
enable_alwaysRegisters(m, id, outcome) ==
  IF ~MapHas(m.shortcuts, id)
  THEN [m |-> m, result |-> [success |-> FALSE, error |-> "Shortcut not found"]]
  ELSE LET shortcut == MapGet(m.shortcuts, id)
       IN  register(m, id, shortcut.accelerator, shortcut.action,
                    shortcut.description, outcome)

enable(m, id, outcome) ==
  IF ~MapHas(m.shortcuts, id)
  THEN [m |-> m, result |-> [success |-> FALSE, error |-> "Shortcut not found"]]
  ELSE LET shortcut == MapGet(m.shortcuts, id)
       IN  IF shortcut.enabled /\ shortcut.registered
           THEN [m |-> m,
                 result |-> [success |-> TRUE, message |-> "Shortcut already enabled"]]
           ELSE register(m, id, shortcut.accelerator, shortcut.action,
                         shortcut.description, outcome)

disable(m, id) == unregister(m, id)

\* {...result, enabled: b}
WithEnabled(result, b) ==
  [f \in DOMAIN result \cup {"enabled"} |-> IF f = "enabled" THEN b ELSE result[f]]

toggle(m, id, outcome) ==
  IF ~MapHas(m.shortcuts, id)
  THEN [m |-> m, result |-> [success |-> FALSE, error |-> "Shortcut not found"]]
  ELSE LET shortcut == MapGet(m.shortcuts, id)
       IN  IF shortcut.enabled /\ shortcut.registered
           THEN LET r == disable(m, id)
                IN  [m |-> r.m, result |-> WithEnabled(r.result, FALSE)]
           ELSE LET r == enable(m, id, outcome)
                IN  [m |-> r.m, result |-> WithEnabled(r.result, TRUE)]

\* the array of {id, ...config}
getAll(m) ==
  [i \in DOMAIN m.shortcuts |->
     [id |-> m.shortcuts[i].id,
      accelerator |-> m.shortcuts[i].config.accelerator,
      action |-> m.shortcuts[i].config.action,
      description |-> m.shortcuts[i].config.description,
      enabled |-> m.shortcuts[i].config.enabled,
      registered |-> m.shortcuts[i].config.registered]]

get(m, id) ==
  IF ~MapHas(m.shortcuts, id) THEN "null"
  ELSE LET shortcut == MapGet(m.shortcuts, id)
       IN  [id |-> id, accelerator |-> shortcut.accelerator, action |-> shortcut.action,
            description |-> shortcut.description, enabled |-> shortcut.enabled,
            registered |-> shortcut.registered]

\* the loop of initialize over config[k..], outcomes[i] answering the claim made
\* for entry i
RECURSIVE initializeFrom(_, _, _, _)
initializeFrom(m, config, outcomes, k) ==
  IF k > Len(config) THEN m
  ELSE LET id == config[k].id
           cfg == config[k].config
           m1 == IF cfg.enabled
                 THEN register(m, id, cfg.accelerator, cfg.action, cfg.description,
                               outcomes[k]).m
                 ELSE [m EXCEPT !.shortcuts = MapSet(@, id,
                         [accelerator |-> cfg.accelerator, action |-> cfg.action,
                          description |-> cfg.description, enabled |-> cfg.enabled,
                          registered |-> FALSE])]
       IN  initializeFrom(m1, config, outcomes, k + 1)

\* the configuration initialize uses: the defaults for null or an empty object
ConfigUsed(savedShortcuts) ==
  IF savedShortcuts = <<>> THEN defaults ELSE savedShortcuts

initialize(m, savedShortcuts, outcomes) ==
  initializeFrom(m, ConfigUsed(savedShortcuts), outcomes, 1)

\* a resetToDefaults that does not clear the map before it re-initializes
resetToDefaults_keepsMap(m, outcomes) ==
  LET m1 == unregisterAll(m).m
      m3 == initialize(m1, defaults, outcomes)
  IN  [m |-> m3, result |-> [success |-> TRUE, shortcuts |-> getAll(m3)]]

resetToDefaults(m, outcomes) ==
  LET m1 == unregisterAll(m).m
      m2 == [m1 EXCEPT !.shortcuts = <<>>]
      m3 == initialize(m2, defaults, outcomes)
  IN  [m |-> m3, result |-> [success |-> TRUE, shortcuts |-> getAll(m3)]]

export(m) ==
  [i \in DOMAIN m.shortcuts |->
     [id |-> m.shortcuts[i].id,
      config |-> [accelerator |-> m.shortcuts[i].config.accelerator,
                  action |-> m.shortcuts[i].config.action,
                  description |-> m.shortcuts[i].config.description,
                  enabled |-> m.shortcuts[i].config.enabled]]]

import(m, config, outcomes) ==
  LET m1 == unregisterAll(m).m
      m2 == [m1 EXCEPT !.shortcuts = <<>>]
      m3 == initialize(m2, config, outcomes)
  IN  [m |-> m3, result |-> [success |-> TRUE, count |-> Len(m3.shortcuts)]]

getStats(m) ==
  [totalRegistered |-> m.stats.totalRegistered,
   totalTriggered |-> m.stats.totalTriggered,
   lastTriggered |-> m.stats.lastTriggered,
   totalShortcuts |-> Len(m.shortcuts),
   enabledShortcuts |-> Cardinality({i \in DOMAIN m.shortcuts : m.shortcuts[i].config.enabled}),
   disabledShortcuts |-> Cardinality({i \in DOMAIN m.shortcuts : ~m.shortcuts[i].config.enabled}),
   registeredAccelerators |-> Cardinality(m.registeredAccelerators)]

\* a probe claim that is not released when it is accepted
probeClaim_keepsProbe(m, accelerator, outcome) ==
  LET c == gsRegister(m, accelerator, Callback("", "", accelerator), outcome)
  IN  IF c.ret = "throw"
      THEN [m |-> c.m,
            result |-> [available |-> FALSE, conflict |-> FALSE,
                        message |-> "Invalid accelerator format"]]
      ELSE IF c.ret = "accept"
      THEN [m |-> c.m,
            result |-> [available |-> TRUE, conflict |-> FALSE,
                        message |-> "Available"]]
      ELSE [m |-> c.m,
            result |-> [available |-> FALSE, conflict |-> TRUE,
                        conflictWith |-> "system",
                        message |-> "Conflicts with system shortcut"]]

\* lines 569-595: the probe claim, released at once when it is accepted
probeClaim(m, accelerator, outcome) ==
  LET c == gsRegister(m, accelerator, Callback("", "", accelerator), outcome)
  IN  IF c.ret = "throw"
      THEN [m |-> c.m,
            result |-> [available |-> FALSE, conflict |-> FALSE,
                        message |-> "Invalid accelerator format"]]
      ELSE IF c.ret = "accept"
      THEN [m |-> gsUnregister(c.m, accelerator),
            result |-> [available |-> TRUE, conflict |-> FALSE,
                        message |-> "Available"]]
      ELSE [m |-> c.m,
            result |-> [available |-> FALSE, conflict |-> TRUE,
                        conflictWith |-> "system",
                        message |-> "Conflicts with system shortcut"]]

\* a checkAvailability that looks the accelerator up in the index, as register does
checkAvailability_usesIndex(m, accelerator, outcome) ==
  IF accelerator \in m.registeredAccelerators
  THEN [m |-> m,
        result |-> [available |-> FALSE, conflict |-> TRUE,
                    conflictWith |-> findShortcutByAccelerator(m, accelerator),
                    message |-> "Already used by"]]
  ELSE probeClaim(m, accelerator, outcome)

\* outcome answers the probe claim
checkAvailability(m, accelerator, outcome) ==
  LET existingId == findShortcutByAccelerator(m, accelerator)
  IN  IF existingId # "null"
      THEN [m |-> m,
            result |-> [available |-> FALSE, conflict |-> TRUE, conflictWith |-> existingId,
                        message |-> "Already used by"]]
      ELSE probeClaim(m, accelerator, outcome)


----------------------------------------------------------------------------
(* The trigger path *)

\* EventEmitter.prototype.emit: the listeners are called in the order they were
\* subscribed; the exception of a listener leaves emit at once, the later listeners
\* are not called; received lists the listeners that were called
emit(ls, event) ==
  LET throwing == {i \in DOMAIN ls : ls[i] = "throws"}
      last == IF throwing = {} THEN Len(ls)
              ELSE CHOOSE i \in throwing : \A j \in throwing : i <= j
  IN  [event |-> event, received |-> 1..last, raised |-> throwing # {}]

\* a handler that emits before it counts: the exception of a listener skips the stats
handleShortcutTriggered_emitsFirst(m, ls, id, action, accelerator, timestamp) ==
  LET e == emit(ls, [id |-> id, action |-> action, accelerator |-> accelerator,
                     timestamp |-> timestamp])
      m1 == [m EXCEPT
               !.stats.totalTriggered = @ + 1,
               !.stats.lastTriggered = <<[id |-> id, action |-> action,
                                          accelerator |-> accelerator,
                                          timestamp |-> timestamp]>>]
  IN  [m |-> IF e.raised THEN m ELSE m1, emitted |-> <<e>>, raised |-> e.raised]

\* the callback the backend holds runs: count it, remember it, emit the event; an
\* exception of emit leaves handleShortcutTriggered and the callback
handleShortcutTriggered(m, ls, id, action, accelerator, timestamp) ==
  LET m1 == [m EXCEPT
               !.stats.totalTriggered = @ + 1,
               !.stats.lastTriggered = <<[id |-> id, action |-> action,
                                          accelerator |-> accelerator,
                                          timestamp |-> timestamp]>>]
      e == emit(ls, [id |-> id, action |-> action, accelerator |-> accelerator,
                     timestamp |-> m1.stats.lastTriggered[1].timestamp])
  IN  [m |-> m1, emitted |-> <<e>>, raised |-> e.raised]

----------------------------------------------------------------------------
(* Specification *)

Init ==
  /\ shortcuts = <<>>
  /\ registeredAccelerators = {}
  /\ stats = [totalRegistered |-> 0, totalTriggered |-> 0, lastTriggered |-> <<>>]
  /\ globalShortcut = {}
  /\ listeners = <<>>

Current == Machine(shortcuts, registeredAccelerators, stats, globalShortcut)

\* the operation that produced r may run: one that counts a claim runs only
\* while totalRegistered is below its cap
Capped(r) ==
  r.m.stats.totalRegistered > stats.totalRegistered
    => stats.totalRegistered < MaxRegistered

Register ==
  \E id \in InputIds, accelerator \in AnyAccelerators, a \in InputActions,
     outcome \in Outcomes :
    LET r == register(Current, id, accelerator, a.action, a.description, outcome)
    IN  /\ Capped(r)
        /\ shortcuts' = r.m.shortcuts
        /\ registeredAccelerators' = r.m.registeredAccelerators
        /\ stats' = r.m.stats
        /\ globalShortcut' = r.m.globalShortcut
        /\ UNCHANGED listeners

Unregister ==
  \E id \in InputIds :
    LET r == unregister(Current, id)
    IN  /\ Capped(r)
        /\ shortcuts' = r.m.shortcuts
        /\ registeredAccelerators' = r.m.registeredAccelerators
        /\ stats' = r.m.stats
        /\ globalShortcut' = r.m.globalShortcut
        /\ UNCHANGED listeners

UnregisterAll ==
  LET r == unregisterAll(Current)
  IN  /\ Capped(r)
      /\ shortcuts' = r.m.shortcuts
      /\ registeredAccelerators' = r.m.registeredAccelerators
      /\ stats' = r.m.stats
      /\ globalShortcut' = r.m.globalShortcut
      /\ UNCHANGED listeners

Update ==
  \E id \in InputIds, newAccelerator \in InputAccelerators, o \in UpdateOutcomes :
    LET r == update(Current, id, newAccelerator, o[1], o[2])
    IN  /\ Capped(r)
        /\ shortcuts' = r.m.shortcuts
        /\ registeredAccelerators' = r.m.registeredAccelerators
        /\ stats' = r.m.stats
        /\ globalShortcut' = r.m.globalShortcut
        /\ UNCHANGED listeners

Enable ==
  \E id \in InputIds, outcome \in Outcomes :
    LET r == enable(Current, id, outcome)
    IN  /\ Capped(r)
        /\ shortcuts' = r.m.shortcuts
        /\ registeredAccelerators' = r.m.registeredAccelerators
        /\ stats' = r.m.stats
        /\ globalShortcut' = r.m.globalShortcut
        /\ UNCHANGED listeners

Disable ==
  \E id \in InputIds :
    LET r == disable(Current, id)
    IN  /\ Capped(r)
        /\ shortcuts' = r.m.shortcuts
        /\ registeredAccelerators' = r.m.registeredAccelerators
        /\ stats' = r.m.stats
        /\ globalShortcut' = r.m.globalShortcut
        /\ UNCHANGED listeners

Toggle ==
  \E id \in InputIds, outcome \in Outcomes :
    LET r == toggle(Current, id, outcome)
    IN  /\ Capped(r)
        /\ shortcuts' = r.m.shortcuts
        /\ registeredAccelerators' = r.m.registeredAccelerators
        /\ stats' = r.m.stats
        /\ globalShortcut' = r.m.globalShortcut
        /\ UNCHANGED listeners

CheckAvailability ==
  \E accelerator \in AnyAccelerators, outcome \in Outcomes :
    LET r == checkAvailability(Current, accelerator, outcome)
    IN  /\ Capped(r)
        /\ shortcuts' = r.m.shortcuts
        /\ registeredAccelerators' = r.m.registeredAccelerators
        /\ stats' = r.m.stats
        /\ globalShortcut' = r.m.globalShortcut
        /\ UNCHANGED listeners

ResetToDefaults ==
  \E outcomes \in InitializeOutcomes(Len(defaults)) :
    LET r == resetToDefaults(Current, outcomes)
    IN  /\ Capped(r)
        /\ shortcuts' = r.m.shortcuts
        /\ registeredAccelerators' = r.m.registeredAccelerators
        /\ stats' = r.m.stats
        /\ globalShortcut' = r.m.globalShortcut
        /\ UNCHANGED listeners

Import ==
  \E config \in ImportConfigs :
    \E outcomes \in InitializeOutcomes(Len(ConfigUsed(config))) :
      LET r == import(Current, config, outcomes)
      IN  /\ Capped(r)
          /\ shortcuts' = r.m.shortcuts
          /\ registeredAccelerators' = r.m.registeredAccelerators
          /\ stats' = r.m.stats
          /\ globalShortcut' = r.m.globalShortcut
          /\ UNCHANGED listeners

\* shortcutManager.on('shortcut-triggered', listener)
On ==
  /\ Len(listeners) < MaxListeners
  /\ \E kind \in ListenerKinds : listeners' = Append(listeners, kind)
  /\ UNCHANGED <<shortcuts, registeredAccelerators, stats, globalShortcut>>

\* the OS runs a callback the backend holds for this process
Trigger ==
  /\ stats.totalTriggered < MaxTriggered
  /\ \E c \in globalShortcut, timestamp \in Timestamps :
       LET r == handleShortcutTriggered(Current, listeners, c.id, c.action,
                                        c.accelerator, timestamp)
       IN  /\ shortcuts' = r.m.shortcuts
           /\ registeredAccelerators' = r.m.registeredAccelerators
           /\ stats' = r.m.stats
           /\ globalShortcut' = r.m.globalShortcut
           /\ UNCHANGED listeners

Next ==
  \/ Register
  \/ Unregister
  \/ UnregisterAll
  \/ Update
  \/ Enable
  \/ Disable
  \/ Toggle
  \/ CheckAvailability
  \/ ResetToDefaults
  \/ Import

Spec == Init /\ [][Next]_vars

\* claims and releases of single bindings interleaved with subscriptions and
\* trigger callbacks
NextTrigger ==
  \/ Register
  \/ Unregister
  \/ On
  \/ Trigger

SpecTrigger == Init /\ [][NextTrigger]_vars

----------------------------------------------------------------------------
(* Properties *)

\* machine m holds what the current state holds (the call log aside)
Unchanged(m) ==
  /\ m.shortcuts = shortcuts
  /\ m.registeredAccelerators = registeredAccelerators
  /\ m.stats = stats
  /\ m.globalShortcut = globalShortcut

\* a failure result that reports a conflict
IsConflict(result) ==
  /\ ~result.success
  /\ "conflict" \in DOMAIN result
  /\ result.conflict = TRUE

DuplicateAccelerator ==
  [success |-> FALSE, error |-> "Shortcut already registered", conflict |-> TRUE]

NotFound == [success |-> FALSE, error |-> "Shortcut not found"]

\* the accelerators of the stored bindings marked registered
ClaimedAccelerators ==
  {shortcuts[i].config.accelerator :
     i \in {j \in DOMAIN shortcuts : shortcuts[j].config.registered}}

\* C1 (I1/P1, uniqueness): no two stored bindings have the same accelerator while
\* both are marked registered.
C1_Uniqueness ==
  \A i, j \in DOMAIN shortcuts :
    (/\ i # j
     /\ shortcuts[i].config.registered
     /\ shortcuts[j].config.registered)
      => shortcuts[i].config.accelerator # shortcuts[j].config.accelerator

\* C2 (I2): every stored binding marked registered is also enabled.
C2_ClaimedImpliesEnabled ==
  \A i \in DOMAIN shortcuts :
    shortcuts[i].config.registered => shortcuts[i].config.enabled

\* C3 (the claimed flag is truthful): the backend holds accelerator a for this
\* process iff some stored binding has accelerator a and is marked registered.
C3_ClaimedFlagTruthful ==
  Held(globalShortcut) = ClaimedAccelerators

\* C4 (failed register is atomic): whenever register returns success=false, for a
\* new or an already stored id, the binding map, the accelerator index, the stats
\* and the backend's held callbacks are as before the call.
C4_FailedRegisterAtomic ==
  \A id \in InputIds, accelerator \in AnyAccelerators, a \in InputActions,
     outcome \in Outcomes :
    LET r == register(Current, id, accelerator, a.action, a.description, outcome)
    IN  ~r.result.success => Unchanged(r.m)

\* a state in which register fails at the backend for an id that is already stored
C4_Witness ==
  \E id \in InputIds, accelerator \in InputAccelerators, a \in InputActions :
    LET r == register(Current, id, accelerator, a.action, a.description, "reject")
    IN  /\ MapHas(shortcuts, id)
        /\ ~r.result.success
        /\ r.m.calls # <<>>

\* C5 (P2, duplicate rejection): register under another id of the accelerator of a
\* stored binding that has enabled=true always returns 'Shortcut already
\* registered' with conflict=true and leaves getAll() as it was.
C5_DuplicateRejection ==
  \A i \in DOMAIN shortcuts :
    shortcuts[i].config.enabled =>
      \A id2 \in InputIds \ {shortcuts[i].id}, a \in InputActions, outcome \in Outcomes :
        LET r == register(Current, id2, shortcuts[i].config.accelerator, a.action,
                          a.description, outcome)
        IN  /\ r.result = DuplicateAccelerator
            /\ getAll(r.m) = getAll(Current)

\* C6 as claimed: register under another id of the accelerator of ANY stored
\* binding, Active or Disabled, fails with 'Shortcut already registered'.
C6_AnyStoredBindingRejects ==
  \A i \in DOMAIN shortcuts :
    \A id2 \in InputIds \ {shortcuts[i].id}, a \in InputActions, outcome \in Outcomes :
      register(Current, id2, shortcuts[i].config.accelerator, a.action, a.description,
               outcome).result = DuplicateAccelerator

\* C6 as amended: register of an accelerator that is in the accelerator index fails
\* with 'Shortcut already registered' whatever the backend would answer, and changes
\* nothing.
C6_IndexedAcceleratorRejects ==
  \A accelerator \in registeredAccelerators :
    \A id \in InputIds, a \in InputActions, outcome \in Outcomes :
      LET r == register(Current, id, accelerator, a.action, a.description, outcome)
      IN  /\ r.result = DuplicateAccelerator
          /\ Unchanged(r.m)

\* a state in which a claimed binding's accelerator is in the index and register of
\* it under another id is refused as a duplicate
C6_Witness ==
  \E i \in DOMAIN shortcuts :
    /\ shortcuts[i].config.registered
    /\ shortcuts[i].config.accelerator \in registeredAccelerators
    /\ \E id2 \in InputIds \ {shortcuts[i].id}, a \in InputActions :
         register(Current, id2, shortcuts[i].config.accelerator, a.action, a.description,
                  "accept").result = DuplicateAccelerator

\* C7 (internal conflict before the backend): a register, update or enable whose
\* accelerator is in the accelerator index makes no call on the backend; register
\* and update of a stored id return their conflict result, enable returns it unless
\* the binding is already Active.
C7_ConflictBeforeBackend ==
  /\ \A accelerator \in registeredAccelerators, id \in InputIds, a \in InputActions,
        outcome \in Outcomes :
       LET r == register(Current, id, accelerator, a.action, a.description, outcome)
       IN  r.m.calls = <<>> /\ IsConflict(r.result)
  /\ \A accelerator \in registeredAccelerators, id \in InputIds, o \in AllOutcomes(2) :
       LET r == update(Current, id, accelerator, o[1], o[2])
       IN  /\ r.m.calls = <<>>
           /\ MapHas(shortcuts, id) => IsConflict(r.result)
  /\ \A id \in InputIds, outcome \in Outcomes :
       (/\ MapHas(shortcuts, id)
        /\ MapGet(shortcuts, id).accelerator \in registeredAccelerators)
         => LET shortcut == MapGet(shortcuts, id)
                r == enable(Current, id, outcome)
            IN  /\ r.m.calls = <<>>
                /\ IF shortcut.enabled /\ shortcut.registered
                   THEN r.result.success
                   ELSE IsConflict(r.result)

\* a state in which a claimed binding would be updated to an accelerator that another
\* binding holds in the index and in the backend
C7_Witness ==
  \E id \in InputIds, accelerator \in registeredAccelerators :
    /\ MapHas(shortcuts, id)
    /\ MapGet(shortcuts, id).registered
    /\ MapGet(shortcuts, id).accelerator # accelerator
    /\ accelerator \in Held(globalShortcut)
    /\ IsConflict(update(Current, id, accelerator, "accept", "accept").result)

\* C8 (successful register): for an id not stored and a valid accelerator not in the
\* index, when the backend accepts the claim, register returns success with the id
\* and accelerator; the binding is appended with enabled and registered set, the
\* accelerator is in the index, the backend holds it for this binding,
\* totalRegistered has grown by one and every other binding is unchanged.
C8_SuccessfulRegister ==
  \A id \in InputIds, accelerator \in AnyAccelerators, a \in InputActions :
    (/\ ~MapHas(shortcuts, id)
     /\ isAcceleratorValid(accelerator)
     /\ accelerator \notin registeredAccelerators
     /\ accelerator \notin Held(globalShortcut))
      => LET r == register(Current, id, accelerator, a.action, a.description, "accept")
         IN  /\ r.result = [success |-> TRUE, id |-> id, accelerator |-> accelerator,
                            action |-> a.action]
             /\ r.m.shortcuts =
                  Append(shortcuts,
                         [id |-> id,
                          config |-> [accelerator |-> accelerator, action |-> a.action,
                                      description |-> a.description, enabled |-> TRUE,
                                      registered |-> TRUE]])
             /\ r.m.registeredAccelerators = registeredAccelerators \cup {accelerator}
             /\ r.m.globalShortcut =
                  globalShortcut \cup {Callback(id, a.action, accelerator)}
             /\ r.m.stats = [stats EXCEPT !.totalRegistered = @ + 1]

\* the state after register on the empty registry was accepted (Scenario A)
C8_Witness ==
  /\ Len(shortcuts) = 1
  /\ shortcuts[1].id = "custom"
  /\ shortcuts[1].config.enabled /\ shortcuts[1].config.registered
  /\ registeredAccelerators = {shortcuts[1].config.accelerator}
  /\ globalShortcut = {Callback("custom", shortcuts[1].config.action,
                                shortcuts[1].config.accelerator)}
  /\ stats.totalRegistered = 1

\* C9 (unregister / disable): on an absent id both return 'Shortcut not found' and
\* change nothing; on a stored id both return success, release the binding's
\* accelerator and take it out of the index iff the binding was registered, and
\* leave the binding stored in place with enabled=false, registered=false and its
\* accelerator, action and description; no other binding changes.
C9_UnregisterDisable ==
  \A id \in InputIds :
    LET r == unregister(Current, id)
    IN  /\ disable(Current, id) = r
        /\ IF ~MapHas(shortcuts, id)
           THEN r.result = NotFound /\ Unchanged(r.m) /\ r.m.calls = <<>>
           ELSE LET shortcut == MapGet(shortcuts, id)
                    k == MapIndex(shortcuts, id)
                IN  /\ r.result = [success |-> TRUE, id |-> id]
                    /\ r.m.calls =
                         IF shortcut.registered
                         THEN <<[fn |-> "unregister",
                                 accelerator |-> shortcut.accelerator, ret |-> "void"]>>
                         ELSE <<>>
                    /\ r.m.registeredAccelerators =
                         IF shortcut.registered
                         THEN registeredAccelerators \ {shortcut.accelerator}
                         ELSE registeredAccelerators
                    /\ r.m.shortcuts =
                         [shortcuts EXCEPT ![k].config =
                            [accelerator |-> shortcut.accelerator,
                             action |-> shortcut.action,
                             description |-> shortcut.description,
                             enabled |-> FALSE, registered |-> FALSE]]
                    /\ r.m.stats = stats

\* a state in which one binding has been unregistered (stored, disabled, out of the
\* index) next to another that is still Active
C9_Witness ==
  \E i, j \in DOMAIN shortcuts :
    /\ i # j
    /\ ~shortcuts[i].config.enabled /\ ~shortcuts[i].config.registered
    /\ shortcuts[i].config.accelerator \notin registeredAccelerators
    /\ shortcuts[j].config.enabled /\ shortcuts[j].config.registered
    /\ unregister(Current, shortcuts[j].id).m.calls # <<>>

\* C10 as claimed (P3): of two unregister(id) calls in a row on a stored id the
\* first succeeds and the second fails with 'Shortcut not found'.
C10_SecondUnregisterNotFound ==
  \A id \in InputIds :
    MapHas(shortcuts, id) =>
      LET r1 == unregister(Current, id)
          r2 == unregister(r1.m, id)
      IN  r1.result.success /\ r2.result = NotFound

\* C10 as amended: of two unregister(id) calls in a row on a stored id both succeed;
\* the second makes no backend call and leaves the registry as the first left it,
\* the binding still stored and Disabled.
C10_SecondUnregisterSucceeds ==
  \A id \in InputIds :
    MapHas(shortcuts, id) =>
      LET r1 == unregister(Current, id)
          r2 == unregister(r1.m, id)
      IN  /\ r1.result = [success |-> TRUE, id |-> id]
          /\ r2.result = [success |-> TRUE, id |-> id]
          /\ r2.m = r1.m
          /\ MapHas(r2.m.shortcuts, id)
          /\ ~MapGet(r2.m.shortcuts, id).enabled
          /\ ~MapGet(r2.m.shortcuts, id).registered

\* the state a first unregister of a claimed binding leaves, in which the second
\* unregister of the same id succeeds again
C10_Witness ==
  \E id \in InputIds :
    /\ MapHas(shortcuts, id)
    /\ ~MapGet(shortcuts, id).enabled /\ ~MapGet(shortcuts, id).registered
    /\ stats.totalRegistered >= 1
    /\ unregister(Current, id).result.success

\* C11 (UnregisterAll postcondition): from any state unregisterAll returns success,
\* the backend holds nothing for this process, the accelerator index is empty, no
\* binding has left the map and every stored binding has enabled=false and
\* registered=false.
C11_UnregisterAllDisablesAll ==
  LET r == unregisterAll(Current)
  IN  /\ r.result.success
      /\ r.m.globalShortcut = {}
      /\ r.m.registeredAccelerators = {}
      /\ [i \in DOMAIN r.m.shortcuts |-> r.m.shortcuts[i].id]
           = [i \in DOMAIN shortcuts |-> shortcuts[i].id]
      /\ \A i \in DOMAIN r.m.shortcuts :
           /\ ~r.m.shortcuts[i].config.enabled
           /\ ~r.m.shortcuts[i].config.registered

\* the result of update is the failure 'Accelerator already in use'
IsAcceleratorConflict(result) ==
  /\ ~result.success
  /\ result.error = "Accelerator already in use"
  /\ IsConflict(result)
  /\ "conflictWith" \in DOMAIN result

\* C12 (update conflict): update(id, newAccelerator) on a stored id returns
\* 'Accelerator already in use' with conflict=true and conflictWith exactly when a
\* stored binding other than id has newAccelerator; conflictWith is then the id of a
\* binding other than id that has newAccelerator, and the registry and the backend
\* are unchanged.
C12_UpdateConflictWithOther ==
  \A id \in InputIds, newAccelerator \in InputAccelerators, o \in UpdateOutcomes :
    MapHas(shortcuts, id) =>
      LET r == update(Current, id, newAccelerator, o[1], o[2])
          others == {i \in DOMAIN shortcuts :
                       /\ shortcuts[i].id # id
                       /\ shortcuts[i].config.accelerator = newAccelerator}
      IN  /\ IsAcceleratorConflict(r.result) <=> others # {}
          /\ IsAcceleratorConflict(r.result) =>
               /\ r.result.conflictWith # id
               /\ \E i \in others : shortcuts[i].id = r.result.conflictWith
               /\ Unchanged(r.m)

\* the binding id is stored with enabled and registered both set
IsActive(m, id) ==
  /\ MapHas(m.shortcuts, id)
  /\ MapGet(m.shortcuts, id).enabled
  /\ MapGet(m.shortcuts, id).registered

\* C13 (update rollback, re-claim accepted, Scenario C): for an Active binding and
\* a newAccelerator other than the binding's own,
\* when the backend refuses the claim of newAccelerator and accepts the re-claim of
\* the old accelerator, update returns success=false with conflict=true; afterwards
\* get(id) has the old accelerator with enabled=true and registered=true, and the
\* backend holds the old accelerator and not the new one.
C13_RollbackReclaimAccepted ==
  \A id \in InputIds, newAccelerator \in InputAccelerators :
    IsActive(Current, id) =>
      LET old == MapGet(shortcuts, id).accelerator
          r == update(Current, id, newAccelerator, "reject", "accept")
      IN  (/\ newAccelerator # old
           /\ Len(r.m.calls) = 3
           /\ r.m.calls[2] = [fn |-> "register", accelerator |-> newAccelerator,
                              ret |-> "reject"]
           /\ r.m.calls[3] = [fn |-> "register", accelerator |-> old, ret |-> "accept"])
            => /\ ~r.result.success
               /\ IsConflict(r.result)
               /\ get(r.m, id).accelerator = old
               /\ get(r.m, id).enabled
               /\ get(r.m, id).registered
               /\ old \in Held(r.m.globalShortcut)
               /\ newAccelerator \notin Held(r.m.globalShortcut)

\* C14 (update rollback, re-claim rejected): for an Active binding, when the backend
\* refuses both the claim of newAccelerator and the re-claim of the old accelerator,
\* update returns the system-conflict failure and afterwards the binding is
\* Disabled: it has the old accelerator, enabled=false and registered=false.
C14_RollbackReclaimRejected ==
  \A id \in InputIds, newAccelerator \in InputAccelerators :
    IsActive(Current, id) =>
      LET old == MapGet(shortcuts, id).accelerator
          r == update(Current, id, newAccelerator, "reject", "reject")
      IN  (/\ newAccelerator # old
           /\ Len(r.m.calls) = 3
           /\ r.m.calls[2].ret = "reject"
           /\ r.m.calls[3].ret = "reject")
            => /\ r.result = [success |-> FALSE,
                              error |-> "Failed to register new shortcut (system conflict)",
                              conflict |-> TRUE]
               /\ get(r.m, id).accelerator = old
               /\ ~get(r.m, id).enabled
               /\ ~get(r.m, id).registered

\* C15 (enable): on an absent id enable returns 'Shortcut not found'; on an Active
\* binding it returns success, calls the backend not at all and changes nothing; on
\* a stored binding that is not Active its result and the state it leaves are those
\* of register with the binding's stored accelerator, action and description, and
\* when it fails the registry and the backend are as before.
C15_Enable ==
  \A id \in InputIds, outcome \in Outcomes :
    LET r == enable(Current, id, outcome)
    IN  IF ~MapHas(shortcuts, id)
        THEN r.result = NotFound /\ Unchanged(r.m) /\ r.m.calls = <<>>
        ELSE IF IsActive(Current, id)
        THEN r.result.success /\ Unchanged(r.m) /\ r.m.calls = <<>>
        ELSE LET shortcut == MapGet(shortcuts, id)
             IN  /\ r = register(Current, id, shortcut.accelerator, shortcut.action,
                                 shortcut.description, outcome)
                 /\ ~r.result.success => Unchanged(r.m)
                 /\ r.result.success =>
                      /\ get(r.m, id) = [get(Current, id) EXCEPT !.enabled = TRUE,
                                                                 !.registered = TRUE]
                      /\ shortcut.accelerator \in r.m.registeredAccelerators
                      /\ shortcut.accelerator \in Held(r.m.globalShortcut)

\* a state with an Active binding, on which enable is the no-op, next to a Disabled
\* one, whose enable the backend may accept or refuse
C15_Witness ==
  \E id, id2 \in InputIds :
    /\ IsActive(Current, id)
    /\ enable(Current, id, "accept").result.success
    /\ MapHas(shortcuts, id2)
    /\ ~MapGet(shortcuts, id2).enabled /\ ~MapGet(shortcuts, id2).registered
    /\ enable(Current, id2, "accept").result.success
    /\ ~enable(Current, id2, "reject").result.success

\* C16 (toggle): toggle(id) on a stored id does what disable does when the binding
\* is Active and what enable does otherwise, and the enabled field of its result is
\* the binding's enabled flag after the call, also when the enable is refused.
C16_ToggleReportsEnabled ==
  \A id \in InputIds, outcome \in Outcomes :
    MapHas(shortcuts, id) =>
      LET r == toggle(Current, id, outcome)
      IN  /\ r.m = IF IsActive(Current, id) THEN disable(Current, id).m
                   ELSE enable(Current, id, outcome).m
          /\ r.result.enabled = get(r.m, id).enabled

\* C17 (P4, toggle round trip): for a stored binding in any reachable state and a
\* backend that accepts every claim it is asked for, toggle(id) followed by
\* toggle(id) leaves the binding with the enabled and registered values it had.
C17_ToggleRoundTrip ==
  \A id \in InputIds :
    MapHas(shortcuts, id) =>
      LET r1 == toggle(Current, id, "accept")
          r2 == toggle(r1.m, id, "accept")
      IN  /\ get(r2.m, id).enabled = get(Current, id).enabled
          /\ get(r2.m, id).registered = get(Current, id).registered

\* C18 (checkAvailability result): when a stored binding has the accelerator the
\* result is available=false, conflict=true with conflictWith the id of a binding
\* that has it, and the backend is not called; otherwise one probe claim is made,
\* the result is available=true, conflict=false iff the backend accepts it, and
\* available=false, conflict=true, conflictWith='system' iff the backend refuses it.
C18_CheckAvailabilityResult ==
  \A accelerator \in AnyAccelerators, outcome \in Outcomes :
    LET r == checkAvailability(Current, accelerator, outcome)
        holders == {i \in DOMAIN shortcuts : shortcuts[i].config.accelerator = accelerator}
        system == /\ "conflictWith" \in DOMAIN r.result
                  /\ r.result.conflictWith = "system"
    IN  IF holders # {}
        THEN /\ ~r.result.available
             /\ r.result.conflict
             /\ \E i \in holders : shortcuts[i].id = r.result.conflictWith
             /\ r.m.calls = <<>>
        ELSE /\ r.m.calls # <<>>
             /\ r.m.calls[1].fn = "register"
             /\ r.m.calls[1].accelerator = accelerator
             /\ (r.m.calls[1].ret = "accept")
                  <=> (r.result.available /\ ~r.result.conflict)
             /\ (r.m.calls[1].ret = "reject")
                  <=> (~r.result.available /\ r.result.conflict /\ system)

\* a state with a Disabled binding, whose accelerator is reported as used by it
\* without a backend call, and a free accelerator, for which the probe is made
C18_Witness ==
  \E i \in DOMAIN shortcuts, accelerator \in InputAccelerators :
    /\ ~shortcuts[i].config.registered
    /\ shortcuts[i].config.accelerator \notin registeredAccelerators
    /\ checkAvailability(Current, shortcuts[i].config.accelerator, "accept").result.conflictWith
         = shortcuts[i].id
    /\ checkAvailability(Current, accelerator, "accept").result.available
    /\ checkAvailability(Current, accelerator, "reject").result.conflict

\* C19 (checkAvailability has no lasting effect): whatever the outcome (internal
\* conflict, probe accepted, probe refused, backend throwing), the binding map, the
\* accelerator index, the stats and the callbacks the backend holds are after the
\* call what they were before it; an accepted probe is released by the next call,
\* and no accelerator of a stored binding is ever released.
C19_CheckAvailabilityNoEffect ==
  \A accelerator \in AnyAccelerators, outcome \in Outcomes :
    LET r == checkAvailability(Current, accelerator, outcome)
        calls == r.m.calls
    IN  /\ Unchanged(r.m)
        /\ \A k \in DOMAIN calls :
             /\ calls[k].fn \in {"register", "unregister"}
             /\ calls[k].accelerator = accelerator
             /\ (calls[k].fn = "register" /\ calls[k].ret = "accept")
                  => /\ k + 1 \in DOMAIN calls
                     /\ calls[k + 1].fn = "unregister"
             /\ calls[k].fn = "unregister"
                  => /\ k > 1
                     /\ calls[k - 1] = [fn |-> "register", accelerator |-> accelerator,
                                        ret |-> "accept"]
                     /\ \A i \in DOMAIN shortcuts :
                          shortcuts[i].config.accelerator # accelerator

\* a state in which the backend holds the accelerator of an Active binding and the
\* probe of another accelerator is accepted and released
C19_Witness ==
  \E id \in InputIds, accelerator \in InputAccelerators :
    /\ IsActive(Current, id)
    /\ MapGet(shortcuts, id).accelerator \in Held(globalShortcut)
    /\ Len(checkAvailability(Current, accelerator, "accept").m.calls) = 2
    /\ Len(checkAvailability(Current, accelerator, "reject").m.calls) = 1

\* the ids of the entries of a map or configuration
Ids(map) == {map[i].id : i \in DOMAIN map}

\* C20 (import replaces, never merges): after import(config), from any state and
\* for every configuration, the empty one included, every stored binding has an id
\* of config (no earlier binding absent from config survives, none absent from
\* config is created), and the returned count is the number of stored bindings.
C20_ImportReplaces ==
  \A config \in ImportConfigs :
    \A outcomes \in InitializeOutcomes(Len(ConfigUsed(config))) :
      LET r == import(Current, config, outcomes)
      IN  /\ Ids(r.m.shortcuts) \subseteq Ids(config)
          /\ r.result.count = Len(r.m.shortcuts)

\* the entries {id, accelerator, action, description, enabled} of a configuration
ConfigEntries(config) == {config[i] : i \in DOMAIN config}

\* C21 (P5, export/import round trip): from any reachable state, the empty registry
\* included, with a backend that accepts every claim of a free accelerator,
\* import(export()) leaves a registry with the same ids and, per id, the same
\* accelerator, action, description and enabled flag as before.
C21_ExportImportRoundTrip ==
  LET config == export(Current)
      outcomes == [i \in 1..Len(ConfigUsed(config)) |-> "accept"]
      r == import(Current, config, outcomes)
  IN  /\ Len(r.m.shortcuts) = Len(shortcuts)
      /\ ConfigEntries(export(r.m)) = ConfigEntries(config)

\* what one trigger callback does: totalTriggered grows by exactly 1, lastTriggered
\* is the callback's {id, action, accelerator, timestamp}, exactly one event is
\* emitted and it carries the same id, action, accelerator and timestamp
EachTriggerCounts ==
  \A c \in globalShortcut, timestamp \in Timestamps :
    LET r == handleShortcutTriggered(Current, listeners, c.id, c.action, c.accelerator,
                                     timestamp)
        triggered == [id |-> c.id, action |-> c.action, accelerator |-> c.accelerator,
                      timestamp |-> timestamp]
    IN  /\ r.m.stats.totalTriggered = stats.totalTriggered + 1
        /\ r.m.stats.lastTriggered = <<triggered>>
        /\ r.m.stats.totalRegistered = stats.totalRegistered
        /\ Len(r.emitted) = 1
        /\ r.emitted[1].event = triggered
        /\ r.m.shortcuts = shortcuts
        /\ r.m.registeredAccelerators = registeredAccelerators
        /\ r.m.globalShortcut = globalShortcut

\* no step takes totalTriggered down, and only a trigger callback changes
\* totalTriggered and lastTriggered
TriggeredMonotone ==
  /\ stats'.totalTriggered >= stats.totalTriggered
  /\ stats'.totalTriggered # stats.totalTriggered
       => /\ stats'.totalTriggered = stats.totalTriggered + 1
          /\ Len(stats'.lastTriggered) = 1
          /\ \E c \in globalShortcut :
               /\ stats'.lastTriggered[1].id = c.id
               /\ stats'.lastTriggered[1].action = c.action
               /\ stats'.lastTriggered[1].accelerator = c.accelerator
  /\ stats'.totalTriggered = stats.totalTriggered
       => stats'.lastTriggered = stats.lastTriggered

\* machine m has the trigger counters of the current state
SameTriggerStats(m) ==
  /\ m.stats.totalTriggered = stats.totalTriggered
  /\ m.stats.lastTriggered = stats.lastTriggered

\* no registry operation, run in the current state with a backend that accepts,
\* writes totalTriggered or lastTriggered
OperationsKeepTriggerStats ==
  /\ \A id \in InputIds :
       /\ SameTriggerStats(unregister(Current, id).m)
       /\ SameTriggerStats(disable(Current, id).m)
       /\ SameTriggerStats(enable(Current, id, "accept").m)
       /\ SameTriggerStats(toggle(Current, id, "accept").m)
       /\ \A accelerator \in InputAccelerators :
            /\ SameTriggerStats(update(Current, id, accelerator, "accept", "accept").m)
            /\ SameTriggerStats(update(Current, id, accelerator, "reject", "accept").m)
            /\ \A a \in InputActions :
                 SameTriggerStats(register(Current, id, accelerator, a.action,
                                           a.description, "accept").m)
  /\ \A accelerator \in InputAccelerators :
       SameTriggerStats(checkAvailability(Current, accelerator, "accept").m)
  /\ SameTriggerStats(unregisterAll(Current).m)
  /\ SameTriggerStats(resetToDefaults(Current, [i \in 1..Len(defaults) |-> "accept"]).m)
  /\ \A config \in ImportConfigs :
       SameTriggerStats(import(Current, config,
                               [i \in 1..Len(ConfigUsed(config)) |-> "accept"]).m)

\* C22 (P6, Scenario E): under any interleaving of trigger callbacks with registry
\* operations totalTriggered never decreases, and each trigger callback increases
\* it by exactly 1, sets lastTriggered to the callback's {id, action, accelerator,
\* timestamp} and emits exactly one 'shortcut-triggered' event with the same id,
\* action and accelerator.
C22_TriggerStats ==
  /\ [](EachTriggerCounts /\ OperationsKeepTriggerStats)
  /\ [][TriggeredMonotone]_vars

\* a state after two trigger callbacks, with listeners subscribed and a callback held
C22_Witness ==
  /\ stats.totalTriggered >= 2
  /\ stats.lastTriggered # <<>>
  /\ listeners # <<>>
  /\ \E c \in globalShortcut : stats.lastTriggered[1].accelerator = c.accelerator

\* C23 (listener isolation): in a trigger callback, whichever listeners throw, every
\* subscribed listener is handed the event, no exception leaves the callback, and
\* totalTriggered and lastTriggered record the trigger exactly once.
C23_ListenerIsolation ==
  \A c \in globalShortcut, timestamp \in Timestamps :
    LET r == handleShortcutTriggered(Current, listeners, c.id, c.action, c.accelerator,
                                     timestamp)
    IN  /\ \A k \in DOMAIN r.emitted : r.emitted[k].received = DOMAIN listeners
        /\ ~r.raised
        /\ r.m.stats.totalTriggered = stats.totalTriggered + 1
        /\ r.m.stats.lastTriggered =
             <<[id |-> c.id, action |-> c.action, accelerator |-> c.accelerator,
                timestamp |-> timestamp]>>

\* in machine m the registered flags, the accelerator index and the backend agree
Consistent(m) ==
  LET claimed == {m.shortcuts[i].config.accelerator :
                    i \in {j \in DOMAIN m.shortcuts : m.shortcuts[j].config.registered}}
  IN  /\ m.registeredAccelerators = claimed
      /\ Held(m.globalShortcut) = claimed

\* some backend call of the operation that left machine m threw
BackendThrew(m) == \E k \in DOMAIN m.calls : m.calls[k].ret = "throw"

\* C24 (backend failures are contained): when a backend call throws during
\* register, update or checkAvailability, run in a state in which the registered
\* flags, the index and the backend agree, the operation returns a failure result
\* and the three still agree afterwards; in particular an update whose claim of the
\* new accelerator throws does not leave the binding marked registered.
C24_BackendFailureContained ==
  Consistent(Current) =>
    /\ \A id \in InputIds, accelerator \in AnyAccelerators, a \in InputActions :
         LET r == register(Current, id, accelerator, a.action, a.description, "throw")
         IN  BackendThrew(r.m) => ~r.result.success /\ Consistent(r.m)
    /\ \A id \in InputIds, newAccelerator \in InputAccelerators, o \in AllOutcomes(2) :
         LET r == update(Current, id, newAccelerator, o[1], o[2])
         IN  BackendThrew(r.m) => ~r.result.success /\ Consistent(r.m)
    /\ \A accelerator \in AnyAccelerators :
         LET r == checkAvailability(Current, accelerator, "throw")
         IN  BackendThrew(r.m) => ~r.result.available /\ Consistent(r.m)

\* every binding stored in the current state is stored in machine m under the same
\* id with the same accelerator
SameAccelerators(m) ==
  \A i \in DOMAIN shortcuts :
    /\ MapHas(m.shortcuts, shortcuts[i].id)
    /\ MapGet(m.shortcuts, shortcuts[i].id).accelerator = shortcuts[i].config.accelerator

\* C25 (I3): register (also of an id that is already stored), enable, disable,
\* toggle, unregister, unregisterAll, checkAvailability and a failed update never
\* change the accelerator stored under an existing id; only a successful update does.
C25_AcceleratorChangesOnlyByUpdate ==
  /\ \A id \in InputIds, outcome \in Outcomes :
       /\ SameAccelerators(unregister(Current, id).m)
       /\ SameAccelerators(disable(Current, id).m)
       /\ SameAccelerators(enable(Current, id, outcome).m)
       /\ SameAccelerators(toggle(Current, id, outcome).m)
       /\ \A accelerator \in AnyAccelerators, a \in InputActions :
            SameAccelerators(register(Current, id, accelerator, a.action,
                                      a.description, outcome).m)
  /\ \A id \in InputIds, newAccelerator \in InputAccelerators, o \in AllOutcomes(2) :
       LET r == update(Current, id, newAccelerator, o[1], o[2])
       IN  ~r.result.success => SameAccelerators(r.m)
  /\ \A accelerator \in AnyAccelerators, outcome \in Outcomes :
       SameAccelerators(checkAvailability(Current, accelerator, outcome).m)
  /\ SameAccelerators(unregisterAll(Current).m)

\* the built-in default bindings, each enabled and registered
ActiveDefaults ==
  [i \in DOMAIN defaults |->
     [id |-> defaults[i].id,
      config |-> [accelerator |-> defaults[i].config.accelerator,
                  action |-> defaults[i].config.action,
                  description |-> defaults[i].config.description,
                  enabled |-> TRUE, registered |-> TRUE]]]

\* C26 (resetToDefaults): from any state, with a backend that accepts every claim
\* of a free accelerator, resetToDefaults returns success and leaves exactly the
\* built-in default bindings, each with enabled=true and registered=true, no
\* earlier binding, and a backend (and an index) that holds exactly the default
\* accelerators.
C26_ResetToDefaults ==
  LET r == resetToDefaults(Current, [i \in 1..Len(defaults) |-> "accept"])
      accelerators == {defaults[i].config.accelerator : i \in DOMAIN defaults}
  IN  /\ r.result.success
      /\ r.result.shortcuts = getAll(r.m)
      /\ r.m.shortcuts = ActiveDefaults
      /\ Ids(r.m.shortcuts) = {"show-hide-window", "create-note", "capture-clipboard",
                               "take-screenshot", "quick-search"}
      /\ Held(r.m.globalShortcut) = accelerators
      /\ Cardinality(r.m.globalShortcut) = Len(defaults)
      /\ r.m.registeredAccelerators = accelerators

\* a state resetToDefaults has left, after an earlier claim had been counted
C26_Witness ==
  /\ shortcuts = ActiveDefaults
  /\ stats.totalRegistered > Len(defaults)
  /\ ~MapHas(shortcuts, "custom")
  /\ Cardinality(globalShortcut) = Len(defaults)

\* C27 (update sequencing): an update of a registered binding that passes the
\* internal conflict check first releases the old accelerator and then claims the
\* new one; when that claim is refused it claims the old accelerator again, once,
\* before it returns its failure; otherwise it makes no further backend call.
C27_UpdateSequencing ==
  \A id \in InputIds, newAccelerator \in InputAccelerators, o \in AllOutcomes(2) :
    (/\ MapHas(shortcuts, id)
     /\ MapGet(shortcuts, id).registered
     /\ newAccelerator \notin registeredAccelerators)
      => LET old == MapGet(shortcuts, id).accelerator
             r == update(Current, id, newAccelerator, o[1], o[2])
             calls == r.m.calls
         IN  /\ Len(calls) >= 2
             /\ calls[1] = [fn |-> "unregister", accelerator |-> old, ret |-> "void"]
             /\ calls[2].fn = "register"
             /\ calls[2].accelerator = newAccelerator
             /\ IF calls[2].ret = "reject"
                THEN /\ Len(calls) = 3
                     /\ calls[3].fn = "register"
                     /\ calls[3].accelerator = old
                     /\ ~r.result.success
                ELSE Len(calls) = 2

\* a state with an Active binding whose update to a free accelerator is refused and
\* rolled back in three backend calls, and accepted in two
C27_Witness ==
  \E id \in InputIds, newAccelerator \in InputAccelerators :
    /\ IsActive(Current, id)
    /\ newAccelerator \notin registeredAccelerators
    /\ newAccelerator \notin Held(globalShortcut)
    /\ Len(update(Current, id, newAccelerator, "reject", "accept").m.calls) = 3
    /\ Len(update(Current, id, newAccelerator, "accept", "accept").m.calls) = 2

\* the number of claims the backend accepted during the operation that left m
AcceptedClaims(m) ==
  Cardinality({k \in DOMAIN m.calls :
                 m.calls[k].fn = "register" /\ m.calls[k].ret = "accept"})

\* the operation that left m counted each claim the backend accepted for it
CountsClaims(m) ==
  m.stats.totalRegistered = stats.totalRegistered + AcceptedClaims(m)

\* C28 (totalRegistered counts the successful claims): every operation raises
\* totalRegistered by exactly the number of claims the backend accepted on behalf
\* of a binding during it (register, enable, toggle, update, import,
\* resetToDefaults), the probe of checkAvailability is not counted, and no
\* operation lowers it.
C28_TotalRegisteredCountsClaims ==
  /\ \A id \in InputIds, outcome \in Outcomes :
       /\ CountsClaims(enable(Current, id, outcome).m)
       /\ CountsClaims(toggle(Current, id, outcome).m)
       /\ CountsClaims(unregister(Current, id).m)
       /\ \A accelerator \in AnyAccelerators, a \in InputActions :
            CountsClaims(register(Current, id, accelerator, a.action, a.description,
                                  outcome).m)
  /\ \A id \in InputIds, newAccelerator \in InputAccelerators, o \in AllOutcomes(2) :
       CountsClaims(update(Current, id, newAccelerator, o[1], o[2]).m)
  /\ \A outcomes \in InitializeOutcomes(Len(defaults)) :
       CountsClaims(resetToDefaults(Current, outcomes).m)
  /\ \A config \in ImportConfigs :
       \A outcomes \in InitializeOutcomes(Len(ConfigUsed(config))) :
         CountsClaims(import(Current, config, outcomes).m)
  /\ CountsClaims(unregisterAll(Current).m)
  /\ \A accelerator \in AnyAccelerators, outcome \in Outcomes :
       checkAvailability(Current, accelerator, outcome).m.stats.totalRegistered
         = stats.totalRegistered

\* C29 (index consistency): after every completed operation the accelerator index
\* is exactly the set of the accelerators of the stored bindings marked registered,
\* and the registeredAccelerators count of getStats() is the number of bindings of
\* getAll() marked registered.
C29_IndexConsistency ==
  /\ registeredAccelerators = ClaimedAccelerators
  /\ getStats(Current).registeredAccelerators =
       Cardinality({i \in DOMAIN getAll(Current) : getAll(Current)[i].registered})

\* the step is a trigger callback, and the binding its event names is stored and
\* Active with the accelerator of the event
TriggersOnlyActive ==
  stats'.totalTriggered # stats.totalTriggered =>
    LET event == stats'.lastTriggered[1]
    IN  /\ IsActive(Current, event.id)
        /\ MapGet(shortcuts, event.id).accelerator = event.accelerator

\* C30 (no stale triggers): the backend running only callbacks it holds, every
\* 'shortcut-triggered' event {id, action, accelerator} is emitted while the binding
\* id is stored and Active and its stored accelerator is the event's; none is
\* emitted for the accelerator a binding had before unregister, or before its
\* accelerator was replaced.
C30_NoStaleTriggers == [][TriggersOnlyActive]_vars

====
